---------------------------- MODULE Spec2Model ----------------------------
(***************************************************************************)
(* Model of outline-rag-scraper: the export pipeline (handlers/export.go)  *)
(* with its rate-limited client and collection-name cache, and the         *)
(* sanitizers of utils/utils.go.                                           *)
(*                                                                         *)
(* Strings are sequences of one-character strings, so that the sanitizers  *)
(* and strconv.Atoi are computed character by character.  Integers that    *)
(* can exceed 32 bits (the int64 arithmetic of time.Duration) are          *)
(* little-endian sequences of base-256 limbs.                              *)
(***************************************************************************)
EXTENDS Integers, Sequences, FiniteSets, TLC

----------------------------------------------------------------------------
(* Characters and strings *)

UpperChars == <<"A","B","C","D","E","F","G","H","I","J","K","L","M",
                "N","O","P","Q","R","S","T","U","V","W","X","Y","Z">>
LowerChars == <<"a","b","c","d","e","f","g","h","i","j","k","l","m",
                "n","o","p","q","r","s","t","u","v","w","x","y","z">>
DigitChars == <<"0","1","2","3","4","5","6","7","8","9">>

Range(s) == {s[i] : i \in DOMAIN s}

IsUpper(c) == c \in Range(UpperChars)
IsLower(c) == c \in Range(LowerChars)
IsDigit(c) == c \in Range(DigitChars)

\* strings.ToLower, one character
ToLowerChar(c) ==
    IF IsUpper(c)
    THEN LowerChars[CHOOSE i \in DOMAIN UpperChars : UpperChars[i] = c]
    ELSE c

\* strings.ToLower
ToLower(s) == [i \in DOMAIN s |-> ToLowerChar(s[i])]

\* the character class [a-z0-9] of SanitizeURLTitle's pattern [^a-z0-9]+
IsSlugChar(c) == IsLower(c) \/ IsDigit(c)

\* the character class [a-zA-Z0-9_-] of SanitizeFilename's pattern
IsFileChar(c) == IsLower(c) \/ IsUpper(c) \/ IsDigit(c) \/ c \in {"_", "-"}

\* regexp.ReplaceAllString(lower, "-") for the pattern [^a-z0-9]+ :
\* every maximal run of characters outside the class becomes one hyphen
RECURSIVE ReplaceRuns(_, _)
ReplaceRuns(s, inRun) ==
    IF s = <<>> THEN <<>>
    ELSE IF IsSlugChar(Head(s)) THEN <<Head(s)>> \o ReplaceRuns(Tail(s), FALSE)
    ELSE IF inRun THEN ReplaceRuns(Tail(s), TRUE)
    ELSE <<"-">> \o ReplaceRuns(Tail(s), TRUE)

\* strings.Trim(s, "-"): strip leading hyphens
RECURSIVE TrimLeft(_)
TrimLeft(s) ==
    IF s # <<>> /\ Head(s) = "-" THEN TrimLeft(Tail(s)) ELSE s

\* strings.Trim(s, "-"): strip trailing hyphens
RECURSIVE TrimRight(_)
TrimRight(s) ==
    IF s # <<>> /\ s[Len(s)] = "-" THEN TrimRight(SubSeq(s, 1, Len(s) - 1)) ELSE s

Trim(s) == TrimRight(TrimLeft(s))

\* SanitizeURLTitle without the final strings.Trim
SanitizeURLTitle_NoTrim(title) == ReplaceRuns(ToLower(title), FALSE)

\* utils.SanitizeURLTitle
SanitizeURLTitle(title) == Trim(ReplaceRuns(ToLower(title), FALSE))

\* spaces replaced by hyphens instead of underscores
ReplaceSpaces_Hyphen(s) == [i \in DOMAIN s |-> IF s[i] = " " THEN "-" ELSE s[i]]

\* strings.ReplaceAll(title, " ", "_")
ReplaceSpaces(s) == [i \in DOMAIN s |-> IF s[i] = " " THEN "_" ELSE s[i]]

\* variant: dots and slashes are kept
SanitizeFilename_KeepsPath(title) ==
    SelectSeq(ReplaceSpaces(title), LAMBDA c : IsFileChar(c) \/ c \in {".", "/"})

\* utils.SanitizeFilename
SanitizeFilename(title) == SelectSeq(ReplaceSpaces(title), IsFileChar)

----------------------------------------------------------------------------
(* Natural numbers as little-endian base-256 limbs; int64 as 8 limbs *)

Limb(x, i) == IF i \in DOMAIN x THEN x[i] ELSE 0

\* x * m + c
RECURSIVE MulAdd(_, _, _)
MulAdd(x, m, c) ==
    IF x = <<>>
    THEN IF c = 0 THEN <<>> ELSE <<c % 256>> \o MulAdd(<<>>, m, c \div 256)
    ELSE LET t == Head(x) * m + c
         IN  <<t % 256>> \o MulAdd(Tail(x), m, t \div 256)

NatLimbs(n) == MulAdd(<<>>, 0, n)

RECURSIVE AddFrom(_, _, _, _)
AddFrom(x, y, i, c) ==
    IF i > Len(x) /\ i > Len(y)
    THEN IF c = 0 THEN <<>> ELSE <<c>>
    ELSE LET t == Limb(x, i) + Limb(y, i) + c
         IN  <<t % 256>> \o AddFrom(x, y, i + 1, t \div 256)

Add(x, y) == AddFrom(x, y, 1, 0)

RECURSIVE GeFrom(_, _, _)
GeFrom(x, y, i) ==
    IF i = 0 THEN TRUE
    ELSE IF Limb(x, i) > Limb(y, i) THEN TRUE
    ELSE IF Limb(x, i) < Limb(y, i) THEN FALSE
    ELSE GeFrom(x, y, i - 1)

\* x >= y
Ge(x, y) == GeFrom(x, y, IF Len(x) > Len(y) THEN Len(x) ELSE Len(y))

IsZero(x) == \A i \in DOMAIN x : x[i] = 0

\* the low 64 bits
Wrap64(x) == [i \in 1..8 |-> Limb(x, i)]

\* two's complement negation in 64 bits
Neg64(x) == Wrap64(Add([i \in 1..8 |-> 255 - Limb(x, i)], <<1>>))

\* sign bit of an int64
IsNeg64(x) == x[8] >= 128

\* 2^63, the magnitude of math.MinInt64
TwoTo63 == <<0, 0, 0, 0, 0, 0, 0, 128>>

----------------------------------------------------------------------------
(* strconv.Atoi on a 64-bit platform *)

DigitVal(c) == (CHOOSE i \in DOMAIN DigitChars : DigitChars[i] = c) - 1

RECURSIVE DecimalLimbs(_, _)
DecimalLimbs(s, acc) ==
    IF s = <<>> THEN acc
    ELSE DecimalLimbs(Tail(s), MulAdd(acc, 10, DigitVal(Head(s))))

\* [ok, neg, mag]: the syntax and range checks of strconv.Atoi / ParseInt(s, 10, 0)
Atoi(s) ==
    LET signed == s # <<>> /\ Head(s) \in {"-", "+"}
        digits == IF signed THEN Tail(s) ELSE s
        neg    == signed /\ Head(s) = "-"
        syntax == digits # <<>> /\ \A i \in DOMAIN digits : IsDigit(digits[i])
        mag    == IF syntax THEN DecimalLimbs(digits, <<>>) ELSE <<>>
        range  == IF neg THEN Ge(TwoTo63, mag) ELSE ~Ge(mag, TwoTo63)
    IN  [ok |-> syntax /\ range, neg |-> neg, mag |-> mag]

\* an int whose magnitude fits the model's integers
RECURSIVE LimbsNat(_)
LimbsNat(x) == IF x = <<>> THEN 0 ELSE Head(x) + 256 * LimbsNat(Tail(x))

IntOf(a) == IF a.neg THEN 0 - LimbsNat(a.mag) ELSE LimbsNat(a.mag)

----------------------------------------------------------------------------
(* Paths: a path is the sequence of its components (path/filepath) *)

RECURSIVE SplitSlash(_, _)
SplitSlash(s, cur) ==
    IF s = <<>> THEN <<cur>>
    ELSE IF Head(s) = "/" THEN <<cur>> \o SplitSlash(Tail(s), <<>>)
    ELSE SplitSlash(Tail(s), Append(cur, Head(s)))

\* filepath.Clean over the components of a relative path
RECURSIVE CleanComponents(_, _)
CleanComponents(todo, done) ==
    IF todo = <<>> THEN done
    ELSE LET c == Head(todo)
         IN  IF c = <<>> \/ c = <<".">> THEN CleanComponents(Tail(todo), done)
             ELSE IF c = <<".", ".">> /\ done # <<>> /\ done[Len(done)] # <<".", ".">>
                  THEN CleanComponents(Tail(todo), SubSeq(done, 1, Len(done) - 1))
                  ELSE CleanComponents(Tail(todo), Append(done, c))

\* filepath.Join(dir, elem): empty elements are ignored, the result is cleaned
PathJoin(dir, elem) == CleanComponents(dir \o SplitSlash(elem, <<>>), <<>>)

Prefixes(path) == {SubSeq(path, 1, n) : n \in 1..Len(path)}

----------------------------------------------------------------------------
(* Configuration (config.LoadConfig) *)

\* DOCUMENTS_DIR=./tmp
DocumentsDir == PathJoin(<<>>, <<".", "/", "t", "m", "p">>)

\* DOCS_BASE_URL=https://view.example.com
DocsBaseURL == <<"h","t","t","p","s",":","/","/","v","i","e","w",".",
                 "e","x","a","m","p","l","e",".","c","o","m">>

\* the values of the LIMIT environment variable the model starts from
LimitStrs == { <<>>, <<"1">>, <<"0">>, <<"-", "1">>, <<"x">> }

DefaultLimit == 100

\* LoadConfig: LIMIT parsed by strconv.Atoi, 100 when unset or unparsable
LoadLimit(limitStr) ==
    IF limitStr # <<>> /\ Atoi(limitStr).ok THEN IntOf(Atoi(limitStr))
    ELSE DefaultLimit

----------------------------------------------------------------------------
(* The source: documents, collection names, exported bodies *)

\* models.Document
Document(id, title, urlId, collectionId) ==
    [ID |-> id, Title |-> title, URLId |-> urlId, CollectionId |-> collectionId]

Doc1 == Document("abc", <<"M","y"," ","D","o","c","!">>, <<"x","y","z">>, "c1")
Doc2 == Document("d2", <<"a"," ","b">>, <<"u","2">>, "")
Doc3 == Document("d3", <<"a","_","b">>, <<"u","3">>, "c2")

\* a document of the collection of Doc3 whose title sanitizes as Doc3's does
Doc4 == Document("d4", <<"a"," ","b">>, <<"u","4">>, "c2")

Docs == {Doc1, Doc2, Doc3}

\* the documents of a source that does not change, in the order of
\* documents.list
Corpora ==
    { <<>>, <<Doc2>>, <<Doc1, Doc2>>, <<Doc4, Doc3>>, <<Doc3, Doc2, Doc4>> }

MaxPageLen == 2

RECURSIVE SeqsUpTo(_, _)
SeqsUpTo(S, n) ==
    IF n = 0 THEN {<<>>}
    ELSE LET shorter == SeqsUpTo(S, n - 1)
         IN  shorter \cup {Append(q, x) : q \in {r \in shorter : Len(r) = n - 1}, x \in S}

\* the pages documents.list can answer with
Pages(docs) == SeqsUpTo(docs, MaxPageLen)

\* the names collections.info can answer with ("!" sanitizes to the empty name)
Names == { <<"H","R"," ","T","e","a","m">>, <<"!">> }

\* the bodies documents.export can answer with
Bodies == { <<"#"," ","h","i">> }

----------------------------------------------------------------------------
(* HTTP: responses of the source, as http.DefaultClient.Do returns them *)

StatusOK == 200
StatusTooManyRequests == 429
StatusInternalServerError == 500

\* the values of the Retry-After header of a 429 response (<<>>: no header)
RetryAfterValues ==
    { <<>>,
      <<"5","0">>,
      <<"s","o","o","n">>,
      <<"-","5">>,
      <<"9","2","2","3","3","7","2","0","3","6","8","5","5">> }

NoResp == [err |-> FALSE, status |-> 0, retryAfter |-> <<>>, valid |-> FALSE, data |-> <<>>]

\* a transport error: Do returns (nil, err)
NetErr == [NoResp EXCEPT !.err = TRUE]

\* a 200 response whose body decodes to data
OkResp(data) == [NoResp EXCEPT !.status = StatusOK, !.valid = TRUE, !.data = data]

\* a 200 response whose body is not the expected JSON
BadJSON == [NoResp EXCEPT !.status = StatusOK]

\* a response with a status other than 200 and 429
ErrStatus == [NoResp EXCEPT !.status = StatusInternalServerError]

\* a 429 response
Limited(h) == [NoResp EXCEPT !.status = StatusTooManyRequests, !.retryAfter = h]

----------------------------------------------------------------------------
(* Bounds of the model *)

\* 429 answers the source gives to one call of doRequestWithRateLimit
MaxRetries == 1
\* the same, for the throttling source
MaxThrottle == 2
\* non-empty pages the source answers with in one run
MaxPages == 2
\* export runs
MaxRuns == 1
\* resolutions each goroutine performs in the cache specification
MaxResolves == 2
\* /upload requests the client sends in the sync specification
MaxSyncRuns == 1
\* requests of each kind the client sends when it repeats its requests
MaxRepeats == 2
\* length of the titles given to the sanitizers
MaxTitleLen == 3

\* the goroutines of the cache specification (net/http serves each request
\* in its own goroutine)
Goroutines == {1, 2}

\* the collection ids of the documents
CollectionIds == {d.CollectionId : d \in Docs} \ {""}

----------------------------------------------------------------------------
VARIABLES
    source,     \* the source API: [docs, names, retryAfter, retries, faults,
                \*                  stable, corpus]
    client,     \* the requests the client sends: [export, upload]
    limit,      \* config.ConfigInstance.Limit
    cache,      \* collectionCache
    fs,         \* the filesystem: [dirs, files]
    pc,         \* where the handler goroutine is
    op,         \* the API call in progress: "list", "export", "info"
    runs,       \* export runs started
    offset,     \* ExportDocumentsHandler: offset
    page,       \* ExportDocumentsHandler: docsResp.Data
    idx,        \* ExportDocumentsHandler: position of doc in the page
    result,     \* what the handler wrote to its http.ResponseWriter
    bodyRead,   \* req.Body has been read by an earlier Do
    sends,      \* the attempts of the current doRequestWithRateLimit call
    open,       \* response bodies received and not closed
    waitDuration, \* doRequestWithRateLimit: waitDuration (int64 nanoseconds)
    clock,      \* nanoseconds since the current doRequestWithRateLimit call began
    resp,       \* the response doRequestWithRateLimit holds or has returned
    expBody,    \* exportAndSaveDocument: expResp.Data
    dirPath,    \* exportAndSaveDocument: dirPath
    resolve,    \* exportAndSaveDocument: how fetchCollectionName ended for doc
    experr,     \* exportAndSaveDocument: the error it returned
    listCalls,  \* offsets of the fetchDocuments calls of this run
    pageLens,   \* lengths of the pages fetchDocuments returned in this run
    attempted,  \* documents of the current page handed to exportAndSaveDocument
    succeeded,  \* collection ids whose resolution has succeeded
    failedIds,  \* collection ids whose resolution has failed
    mu,         \* collectionCacheMu: 0, or the goroutine holding it
    g,          \* the goroutines calling fetchCollectionName concurrently
    infoCalls,  \* collections.info lookups made, by collection id
    sink,       \* the sink API: [files, members]
    spc,        \* where the goroutine of UploadDocumentsHandler is
    sruns,      \* /upload requests served or in progress
    knowFiles,  \* clearKnowledgeCollection: knowResp.Files
    ridx,       \* clearKnowledgeCollection: position of file in knowResp.Files
    entries,    \* UploadDocumentsHandler: files, as ioutil.ReadDir returned them
    eidx,       \* UploadDocumentsHandler: position of file in files
    fileID,     \* uploadToOpenWebUI: fileID
    syncResult, \* what UploadDocumentsHandler wrote to its http.ResponseWriter
    scalls,     \* the sink calls of this run that have returned, in order
    sanIn,      \* the title given to a sanitizer
    sanOut      \* what the sanitizer returned: [fn, n, prev, out]

cfgVars == <<source, client, limit>>
callVars == <<bodyRead, sends, waitDuration, clock, resp>>
docVars == <<expBody, dirPath, resolve, experr>>
pageVars == <<page, idx, attempted>>
runVars == <<runs, offset, result, listCalls, pageLens>>
cacheVars == <<cache, succeeded, failedIds>>
goVars == <<mu, g, infoCalls>>
syncVars == <<sink, spc, sruns, knowFiles, ridx, entries, eidx, fileID, syncResult,
              scalls>>
sanVars == <<sanIn, sanOut>>
\* what the export handler never touches
restVars == <<goVars, syncVars, sanVars>>
handlerVars == <<fs, pc, op, open, callVars, docVars, pageVars, runVars>>

vars == <<cfgVars, cacheVars, goVars, handlerVars, syncVars, sanVars>>

NoResolve == [kind |-> "none", name |-> <<>>, before |-> <<>>]
NoResult == [status |-> 0, body |-> ""]
EmptyFS == [dirs |-> {}, files |-> <<>>]
EmptySink == [files |-> <<>>, members |-> {}, faults |-> FALSE]
NoOut == [fn |-> "none", n |-> 0, prev |-> <<>>, out |-> <<>>]

\* a goroutine that has not called fetchCollectionName yet
IdleGoroutine ==
    [pc |-> "idle", id |-> "", name |-> <<>>, err |-> FALSE,
     late |-> FALSE, fresh |-> FALSE, hist |-> <<>>]

\* the state after main has called config.LoadConfig, before any request
Start ==
    /\ cache = <<>>
    /\ pc = "idle"
    /\ op = "none"
    /\ runs = 0
    /\ offset = 0
    /\ page = <<>>
    /\ idx = 0
    /\ result = NoResult
    /\ bodyRead = FALSE
    /\ sends = <<>>
    /\ open = 0
    /\ waitDuration = <<>>
    /\ clock = <<>>
    /\ resp = NoResp
    /\ expBody = <<>>
    /\ dirPath = <<>>
    /\ resolve = NoResolve
    /\ experr = "none"
    /\ listCalls = <<>>
    /\ pageLens = <<>>
    /\ attempted = <<>>
    /\ succeeded = {}
    /\ failedIds = {}
    /\ mu = 0
    /\ g = [t \in Goroutines |-> IdleGoroutine]
    /\ infoCalls = [c \in CollectionIds |-> 0]
    /\ spc = "idle"
    /\ sruns = 0
    /\ knowFiles = <<>>
    /\ ridx = 0
    /\ entries = <<>>
    /\ eidx = 0
    /\ fileID = 0
    /\ syncResult = NoResult
    /\ scalls = <<>>
    /\ sanOut = NoOut

\* a source with every document and name of the model, whose 429 answers
\* carry Retry-After: 50
FullSource ==
    [docs |-> Docs, names |-> Names, retryAfter |-> {<<"5","0">>},
     retries |-> MaxRetries, faults |-> TRUE, stable |-> FALSE, corpus |-> <<>>]

\* a source with one document, whose 429 answers carry any of the
\* Retry-After values
ThrottlingSource ==
    [docs |-> {Doc1}, names |-> {<<"H","R"," ","T","e","a","m">>},
     retryAfter |-> RetryAfterValues, retries |-> MaxThrottle, faults |-> TRUE,
     stable |-> FALSE, corpus |-> <<>>]

Init ==
    /\ source = FullSource
    /\ client = [export |-> MaxRuns, upload |-> 0]
    /\ limit \in {LoadLimit(l) : l \in LimitStrs}
    /\ fs = EmptyFS
    /\ sink = EmptySink
    /\ sanIn = <<>>
    /\ Start

InitRate ==
    /\ source = ThrottlingSource
    /\ client = [export |-> MaxRuns, upload |-> 0]
    /\ limit = LoadLimit(<<>>)
    /\ fs = EmptyFS
    /\ sink = EmptySink
    /\ sanIn = <<>>
    /\ Start

\* a source whose documents and collection names do not change
StableSource(corpus, name, faults, retries) ==
    [docs |-> Range(corpus), names |-> {name}, retryAfter |-> {<<"5","0">>},
     retries |-> retries, faults |-> faults, stable |-> TRUE, corpus |-> corpus]

\* the documents of a page written as exportAndSaveDocument writes them, all
\* collection names resolving to name
RECURSIVE Exported(_, _, _)
Exported(f, docs, name) ==
    IF docs = <<>> THEN f
    ELSE LET doc == Head(docs)
             dir == IF doc.CollectionId = "" THEN DocumentsDir
                    ELSE PathJoin(DocumentsDir, SanitizeFilename(name))
             path == PathJoin(dir, SanitizeFilename(doc.Title) \o <<".", "m", "d">>)
             data == <<"D","o","c","u","m","e","n","t"," ","U","R","L",":"," ">>
                       \o DocsBaseURL \o <<"/">> \o SanitizeURLTitle(doc.Title)
                       \o <<"-">> \o doc.URLId \o <<"\n", "\n">>
                       \o (CHOOSE b \in Bodies : TRUE)
             made == [f EXCEPT !.dirs = @ \cup Prefixes(dir)]
             written == [made EXCEPT !.files =
                            [q \in DOMAIN @ \cup {path} |->
                                IF q = path THEN data ELSE @[q]]]
         IN  Exported(written, Tail(docs), name)

\* staging directories as export runs leave them, and one in which a
\* directory named Z.md was made beside the exported files
StagingDirs ==
    {EmptyFS} \cup {Exported(EmptyFS, q, n) : q \in Corpora, n \in Names}
      \cup {[Exported(EmptyFS, <<Doc1, Doc2>>, <<"!">>) EXCEPT
               !.dirs = @ \cup {PathJoin(DocumentsDir, <<"Z", ".", "m", "d">>)}]}

\* a file uploaded by an earlier sync run
OldFile == [name |-> <<"o",".","m","d">>, content |-> <<"o","l","d">>]

\* the sink before a sync run: two files of earlier runs, any of them still
\* in the knowledge collection
Sinks(faults) ==
    {[files |-> <<OldFile, OldFile>>, members |-> m, faults |-> faults] :
        m \in SUBSET {1, 2}}

\* the sync pipeline alone, over what an export left, against a sink that
\* can fail
InitSync ==
    /\ source = FullSource
    /\ client = [export |-> 0, upload |-> MaxSyncRuns]
    /\ limit = LoadLimit(<<>>)
    /\ fs \in StagingDirs
    /\ sink \in Sinks(TRUE)
    /\ sanIn = <<>>
    /\ Start

\* export runs, then sync runs, with a source and a sink that do not change
\* and never fail
InitRepeat ==
    /\ \E c \in Corpora, n \in Names : source = StableSource(c, n, FALSE, 0)
    /\ client = [export |-> MaxRepeats, upload |-> MaxRepeats]
    /\ limit \in {LoadLimit(<<>>), LoadLimit(<<"1">>)}
    /\ fs = EmptyFS
    /\ sink \in Sinks(FALSE)
    /\ sanIn = <<>>
    /\ Start

\* one export run over documents that collide, with a source that can fail
InitCollide ==
    /\ \E c \in {q \in Corpora : Len(q) >= 2}, n \in Names :
          source = StableSource(c, n, TRUE, MaxRetries)
    /\ client = [export |-> MaxRuns, upload |-> 0]
    /\ limit \in {LoadLimit(<<>>), LoadLimit(<<"1">>)}
    /\ fs = EmptyFS
    /\ sink = EmptySink
    /\ sanIn = <<>>
    /\ Start

\* collection names with path characters, and one that sanitizes to nothing
PathNames ==
    { <<".", ".">>, <<".", ".", "/", "e">>, <<"/", "a">>, <<"a", "/", ".", ".", "/", "b">>,
      <<"!">> }

\* one export run over documents whose titles have path characters, with a
\* collection name that has them too
InitConfine ==
    /\ \E n \in PathNames :
          source = StableSource(<<Document("d5", <<".", ".", "/", "x">>, <<"u", "5">>, "c1"),
                                  Document("d6", <<"/">>, <<"u", "6">>, ""),
                                  Document("d7", <<".", "."," ", "/">>, <<"u", "7">>, "c1")>>,
                                n, TRUE, MaxRetries)
    /\ client = [export |-> MaxRuns, upload |-> 0]
    /\ limit = LoadLimit(<<>>)
    /\ fs = EmptyFS
    /\ sink = EmptySink
    /\ sanIn = <<>>
    /\ Start

\* an export run and then a sync run over a staging directory that holds
\* the files of an earlier run, of which My Doc! is no longer in the source
InitFrame ==
    /\ \E c \in { <<Doc2>>, <<Doc4, Doc3>> } :
          source = StableSource(c, <<"H","R"," ","T","e","a","m">>, TRUE, MaxRetries)
    /\ client = [export |-> MaxRuns, upload |-> MaxSyncRuns]
    /\ limit = LoadLimit(<<>>)
    /\ fs = Exported(EmptyFS, <<Doc1, Doc2>>, <<"H","R"," ","T","e","a","m">>)
    /\ sink \in Sinks(FALSE)
    /\ sanIn = <<>>
    /\ Start

\* the characters of the titles given to the sanitizers
TitleChars == {"A", "b", "1", " ", "-", "_", "!", "U+00E9"}

\* a sanitizer is about to be called with a title
InitSanitize ==
    /\ source = FullSource
    /\ client = [export |-> 0, upload |-> 0]
    /\ limit = LoadLimit(<<>>)
    /\ fs = EmptyFS
    /\ sink = EmptySink
    /\ sanIn \in SeqsUpTo(TitleChars, MaxTitleLen)
    /\ Start

InitCache ==
    /\ source = FullSource
    /\ client = [export |-> 0, upload |-> 0]
    /\ limit = LoadLimit(<<>>)
    /\ fs = EmptyFS
    /\ sink = EmptySink
    /\ sanIn = <<>>
    /\ Start

----------------------------------------------------------------------------
(* doRequestWithRateLimit *)

Millisecond == 1000000
Second == 1000000000

\* an int as the 64 bits of its two's complement
Int64(a) == IF a.neg THEN Neg64(a.mag) ELSE Wrap64(a.mag)

\* lines 42-53: waitDuration from the Retry-After header; the product
\* time.Duration(ms) * time.Millisecond wraps in 64 bits
WaitDuration(retryAfterStr) ==
    IF retryAfterStr # <<>>
    THEN LET ms == Atoi(retryAfterStr)
         IN  IF ~ms.ok THEN Wrap64(NatLimbs(Second))
             ELSE Wrap64(MulAdd(Int64(ms), Millisecond, 0))
    ELSE Wrap64(NatLimbs(Second))

\* time.Sleep(d) returns at once when d <= 0 and after d otherwise
SleepTime(d) == IF IsNeg64(d) THEN <<>> ELSE d

\* a caller prepares a request (http.NewRequest with a bytes.Buffer body)
\* and calls doRequestWithRateLimit
BeginCall(o) ==
    /\ op' = o
    /\ pc' = "send"
    /\ bodyRead' = FALSE
    /\ sends' = <<>>
    /\ waitDuration' = <<>>
    /\ clock' = <<>>
    /\ resp' = NoResp

\* doRequestWithRateLimit has returned and its caller is done with the response
EndCall ==
    /\ bodyRead' = FALSE
    /\ sends' = <<>>
    /\ waitDuration' = <<>>
    /\ clock' = <<>>
    /\ resp' = NoResp

\* documents.list {offset, limit} of a source whose documents do not change
PageAt(corpus, off, lim) ==
    LET last == IF off + lim < Len(corpus) THEN off + lim ELSE Len(corpus)
    IN  IF off < 0 \/ off + 1 > last THEN <<>> ELSE SubSeq(corpus, off + 1, last)

\* what the source can put in a 200 answer to each call
Payloads(o) ==
    CASE o = "list"   -> IF source.stable
                         THEN {PageAt(source.corpus, offset, limit)}
                         ELSE IF Len(pageLens) < MaxPages
                              THEN Pages(source.docs) ELSE {<<>>}
      [] o = "export" -> Bodies
      [] o = "info"   -> source.names

\* how the request body leaves on this attempt.  The first Do reads req.Body
\* (a bytes.Buffer) to its end.  A later Do of the same request finds it
\* drained: net/http either fails the write ("ContentLength=N with Body length
\* 0", mode "short"), or rewinds the body through GetBody when the failed write
\* was on a reused connection (mode "full"), or, over HTTP/2, sends the headers
\* with no body (mode "empty").
BodyModes == IF bodyRead THEN {"full", "short", "empty"} ELSE {"full"}

\* the results Do can have on this attempt
Answers(mode) ==
    LET limited == IF Len(sends) < source.retries
                   THEN {Limited(h) : h \in source.retryAfter} ELSE {}
        faults(F) == IF source.faults THEN F ELSE {}
    IN  CASE mode = "short" -> {NetErr}
          [] mode = "empty" -> {NetErr, ErrStatus} \cup limited
          [] mode = "full"  -> faults({NetErr, ErrStatus, BadJSON}) \cup limited
                                 \cup {OkResp(d) : d \in Payloads(op)}

\* variant: the loop gives up after the first retry
Returns_Capped(r) == r.err \/ r.status # StatusTooManyRequests \/ Len(sends) >= 1

\* lines 33-39: the loop returns on an error and on any status but 429
Returns(r) == r.err \/ r.status # StatusTooManyRequests

\* lines 32-39: one http.DefaultClient.Do(req) and the two early returns
DoRequest ==
    /\ pc = "send"
    /\ \E mode \in BodyModes : \E r \in Answers(mode) :
         /\ sends' = Append(sends, [at |-> clock, body |-> mode, answer |-> r])
         /\ resp' = r
         /\ open' = IF r.err THEN open ELSE open + 1
         /\ pc' = IF Returns(r) THEN "returned" ELSE "limited"
    /\ bodyRead' = TRUE
    /\ UNCHANGED <<cfgVars, cacheVars, restVars, fs, op, waitDuration, clock,
                   docVars, pageVars, runVars>>

\* lines 41-55: read Retry-After, compute the wait, close the 429 body
RateLimited ==
    /\ pc = "limited"
    /\ waitDuration' = WaitDuration(resp.retryAfter)
    /\ open' = open - 1
    /\ pc' = "sleep"
    /\ UNCHANGED <<cfgVars, cacheVars, restVars, fs, op, bodyRead, sends, clock,
                   resp, docVars, pageVars, runVars>>

\* line 56: time.Sleep(waitDuration), then the next iteration of the loop
Sleep ==
    /\ pc = "sleep"
    /\ clock' = Add(clock, SleepTime(waitDuration))
    /\ pc' = "send"
    /\ UNCHANGED <<cfgVars, cacheVars, restVars, fs, op, bodyRead, sends, open,
                   waitDuration, resp, docVars, pageVars, runVars>>

----------------------------------------------------------------------------
(* fetchCollectionName: the cache *)

\* variant: the lookup never hits
CacheHas_Never(c, id) == FALSE

\* line 101: name, exists := collectionCache[collectionID]
CacheHas(c, id) == id \in DOMAIN c

\* variant: the name is not written
CacheStore_Dropped(c, id, name) == c

\* line 145: collectionCache[collectionID] = collResp.Data.Name
CacheStore(c, id, name) ==
    [x \in DOMAIN c \cup {id} |-> IF x = id THEN name ELSE c[x]]

\* variant: a failure is cached as an empty name
CacheAfterError_Negative(c, id) ==
    [x \in DOMAIN c \cup {id} |-> IF x = id THEN <<>> ELSE c[x]]

\* lines 124-141: the error returns of fetchCollectionName do not touch the map
CacheAfterError(c, id) == c

\* lines 123-141: fetchCollectionName returns an error
CollectionInfoErr(r) == r.err \/ r.status # StatusOK \/ ~r.valid

----------------------------------------------------------------------------
(* exportAndSaveDocument *)

MdSuffix == <<".", "m", "d">>
UrlLabel == <<"D","o","c","u","m","e","n","t"," ","U","R","L",":"," ">>

\* variant: the URL ends in the document id
DocURL_WithID(doc) ==
    DocsBaseURL \o <<"/">> \o SanitizeURLTitle(doc.Title) \o <<"-", doc.ID>>

\* line 156: docURL
DocURL(doc) ==
    DocsBaseURL \o <<"/">> \o SanitizeURLTitle(doc.Title) \o <<"-">> \o doc.URLId

\* line 187: content
Content(doc, body) == UrlLabel \o DocURL(doc) \o <<"\n", "\n">> \o body

\* variant: the collection name is used as it is
CollectionDir_Unsanitized(name) == PathJoin(DocumentsDir, name)

\* line 200: the directory of a document whose collection name resolved
CollectionDir(name) == PathJoin(DocumentsDir, SanitizeFilename(name))

\* variant: the file name carries the document id
FilePath_WithID(dir, doc) ==
    PathJoin(dir, SanitizeFilename(doc.Title) \o <<doc.ID>> \o MdSuffix)

\* line 212: filePath
FilePath(dir, doc) == PathJoin(dir, SanitizeFilename(doc.Title) \o MdSuffix)

\* variant: the body of the export answer is not checked
ExportErr_NoDecode(r) == r.err \/ r.status # StatusOK

\* lines 175-186: exportAndSaveDocument returns an error for the export call
ExportErr(r) == r.err \/ r.status # StatusOK \/ ~r.valid

\* the caller's deferred resp.Body.Close()
CloseBody(r) == IF r.err THEN open ELSE open - 1

\* the current document of the range loop
CurDoc == page[idx]

\* exportAndSaveDocument(doc) is entered: lines 155-175
BeginDocument ==
    /\ expBody' = <<>>
    /\ dirPath' = <<>>
    /\ resolve' = NoResolve
    /\ experr' = "none"
    /\ BeginCall("export")

\* lines 175-205 up to the cache lookup of fetchCollectionName (98-123):
\* the answer of documents.export
ExportReturn ==
    /\ pc = "returned" /\ op = "export"
    /\ IF ExportErr(resp)
       THEN /\ experr' = "fetch"
            /\ open' = CloseBody(resp)
            /\ pc' = "exported"
            /\ op' = "none"
            /\ EndCall
            /\ UNCHANGED <<expBody, dirPath, resolve>>
       ELSE /\ expBody' = resp.data
            /\ experr' = "none"
            /\ open' = open
            /\ IF CurDoc.CollectionId = ""
               THEN /\ dirPath' = DocumentsDir
                    /\ resolve' = NoResolve
                    /\ pc' = "save"
                    /\ op' = "none"
                    /\ EndCall
               ELSE IF CacheHas(cache, CurDoc.CollectionId)
               THEN /\ dirPath' = CollectionDir(cache[CurDoc.CollectionId])
                    /\ resolve' = [kind |-> "hit",
                                   name |-> cache[CurDoc.CollectionId],
                                   before |-> cache]
                    /\ pc' = "save"
                    /\ op' = "none"
                    /\ EndCall
               ELSE /\ dirPath' = <<>>
                    /\ resolve' = [kind |-> "miss", name |-> <<>>, before |-> cache]
                    /\ BeginCall("info")
    /\ UNCHANGED <<cfgVars, cacheVars, restVars, fs, page, idx, attempted, runVars>>

\* fetchCollectionName lines 123-148 and exportAndSaveDocument lines 192-201:
\* the answer of collections.info
CollectionInfoReturn ==
    /\ pc = "returned" /\ op = "info"
    /\ IF CollectionInfoErr(resp)
       THEN /\ cache' = CacheAfterError(cache, CurDoc.CollectionId)
            /\ succeeded' = succeeded
            /\ failedIds' = failedIds \cup {CurDoc.CollectionId}
            /\ resolve' = [resolve EXCEPT !.kind = "fail"]
            /\ dirPath' = DocumentsDir
       ELSE /\ cache' = CacheStore(cache, CurDoc.CollectionId, resp.data)
            /\ succeeded' = succeeded \cup {CurDoc.CollectionId}
            /\ failedIds' = failedIds
            /\ resolve' = [resolve EXCEPT !.kind = "ok", !.name = resp.data]
            /\ dirPath' = CollectionDir(resp.data)
    /\ open' = CloseBody(resp)
    /\ pc' = "save"
    /\ op' = "none"
    /\ EndCall
    /\ UNCHANGED <<cfgVars, restVars, fs, expBody, experr, pageVars, runVars>>

----------------------------------------------------------------------------
(* The filesystem *)

\* os.MkdirAll cannot succeed when a component of the path is a regular file
MkdirBlocked(f, dir) == \E q \in Prefixes(dir) : q \in DOMAIN f.files

\* variant: the directory is emptied when it exists
MkdirAll_Clears(f, dir) ==
    [dirs |-> f.dirs \cup Prefixes(dir),
     files |-> [q \in {p \in DOMAIN f.files :
                         ~(Len(p) > Len(dir) /\ SubSeq(p, 1, Len(dir)) = dir)}
                  |-> f.files[q]]]

\* os.MkdirAll(dir) succeeded: dir and its parents exist
MkdirAll(f, dir) == [f EXCEPT !.dirs = @ \cup Prefixes(dir)]

\* os.MkdirAll(dir) failed after creating the first n components
MkdirPartial(f, dir, n) == [f EXCEPT !.dirs = @ \cup Prefixes(SubSeq(dir, 1, n))]

\* ioutil.WriteFile cannot open a path that is a directory
WriteBlocked(f, path) == path \in f.dirs

\* variant: the file is opened for appending
WriteFile_Append(f, path, data) ==
    [f EXCEPT !.files = [q \in DOMAIN @ \cup {path} |->
                            IF q # path THEN @[q]
                            ELSE IF path \in DOMAIN @ THEN @[path] \o data
                            ELSE data]]

\* ioutil.WriteFile(path, data, 0644): create or truncate, then write
WriteFile(f, path, data) ==
    [f EXCEPT !.files = [q \in DOMAIN @ \cup {path} |->
                            IF q = path THEN data ELSE @[q]]]

\* lines 207-217: MkdirAll, WriteFile, and the return of exportAndSaveDocument.
\* Either call fails when the path is blocked, and can fail for a reason of
\* the system (permissions, a full disk) where the environment has faults.
Save ==
    /\ pc = "save"
    /\ LET path == FilePath(dirPath, CurDoc)
           made == MkdirAll(fs, dirPath)
       IN  \/ /\ source.faults \/ MkdirBlocked(fs, dirPath)
              /\ \E n \in 0..(Len(dirPath) - 1) : fs' = MkdirPartial(fs, dirPath, n)
              /\ experr' = "mkdir"
           \/ /\ ~MkdirBlocked(fs, dirPath)
              /\ \/ /\ source.faults \/ WriteBlocked(made, path)
                    /\ fs' = made                       \* the file cannot be opened
                    /\ experr' = "write"
                 \/ /\ source.faults
                    /\ ~WriteBlocked(made, path)         \* opened, the write fails
                    /\ fs' = WriteFile(made, path, <<>>)
                    /\ experr' = "write"
                 \/ /\ ~WriteBlocked(made, path)
                    /\ fs' = WriteFile(made, path, Content(CurDoc, expBody))
                    /\ experr' = "nil"
    /\ open' = open - 1
    /\ pc' = "exported"
    /\ UNCHANGED <<cfgVars, cacheVars, restVars, op, callVars, expBody, dirPath,
                   resolve, page, idx, attempted, runVars>>

----------------------------------------------------------------------------
(* ExportDocumentsHandler *)

Completed == [status |-> StatusOK, body |-> "Export completed."]
FetchError == [status |-> StatusInternalServerError, body |-> "Error fetching documents"]

\* variant: a body that does not decode is taken as an empty page
FetchDocumentsErr_NoDecode(r) == r.err \/ r.status # StatusOK

\* fetchDocuments lines 80-92: fetchDocuments returns an error
FetchDocumentsErr(r) == r.err \/ r.status # StatusOK \/ ~r.valid

\* variant: the offset advances by the number of documents received
NextOffset_PageLen(off, lim, pg) == off + Len(pg)

\* line 244: offset += config.ConfigInstance.Limit
NextOffset(off, lim, pg) == off + lim

\* variant: the loop stops at the first failed document
MoreDocuments_UntilError(i, pg, err) == i < Len(pg) /\ err = "nil"

\* lines 239-243: the range loop goes on to the next document of the page,
\* whatever exportAndSaveDocument returned for this one
MoreDocuments(i, pg, err) == i < Len(pg)

\* lines 228-231: a request for /export arrives; offset := 0 and the first
\* fetchDocuments(offset).  The client sends one request at a time, its
\* /export requests before its /upload requests.
StartExport ==
    /\ pc = "idle"
    /\ spc = "idle"
    /\ sruns = 0
    /\ runs < client.export
    /\ runs' = runs + 1
    /\ offset' = 0
    /\ result' = NoResult
    /\ listCalls' = <<0>>
    /\ pageLens' = <<>>
    /\ BeginCall("list")
    /\ UNCHANGED <<cfgVars, cacheVars, restVars, fs, open, docVars, pageVars>>

\* fetchDocuments lines 80-93 and the handler's lines 232-240: the answer of
\* documents.list
FetchDocumentsReturn ==
    /\ pc = "returned" /\ op = "list"
    /\ open' = CloseBody(resp)
    /\ IF FetchDocumentsErr(resp)
       THEN /\ result' = FetchError
            /\ pc' = "idle"
            /\ op' = "none"
            /\ EndCall
            /\ UNCHANGED <<pageLens, pageVars, docVars>>
       ELSE /\ pageLens' = Append(pageLens, Len(resp.data))
            /\ IF Len(resp.data) = 0
               THEN /\ result' = Completed
                    /\ pc' = "idle"
                    /\ op' = "none"
                    /\ EndCall
                    /\ UNCHANGED <<pageVars, docVars>>
               ELSE /\ result' = result
                    /\ page' = resp.data
                    /\ idx' = 1
                    /\ attempted' = <<resp.data[1]>>
                    /\ BeginDocument
    /\ UNCHANGED <<cfgVars, cacheVars, restVars, fs, runs, offset, listCalls>>

\* lines 239-245: the error of exportAndSaveDocument is logged; the loop moves
\* to the next document, or adds the limit to offset and fetches the next page
NextDocument ==
    /\ pc = "exported"
    /\ IF MoreDocuments(idx, page, experr)
       THEN /\ idx' = idx + 1
            /\ attempted' = Append(attempted, page[idx + 1])
            /\ BeginDocument
            /\ UNCHANGED <<page, offset, listCalls>>
       ELSE /\ offset' = NextOffset(offset, limit, page)
            /\ listCalls' = Append(listCalls, offset')
            /\ page' = <<>>
            /\ idx' = 0
            /\ attempted' = <<>>
            /\ expBody' = <<>>
            /\ dirPath' = <<>>
            /\ resolve' = NoResolve
            /\ experr' = "none"
            /\ BeginCall("list")
    /\ UNCHANGED <<cfgVars, cacheVars, restVars, fs, open, runs, result, pageLens>>

----------------------------------------------------------------------------
(* The sink API, as the calls of upload.go see it *)

StatusCreated == 201

\* a 201 response whose body decodes to data
CreatedResp(data) == [OkResp(data) EXCEPT !.status = StatusCreated]

\* the sink stores an uploaded file under a new id
SinkUpload(s, name, content) ==
    [s EXCEPT !.files = Append(@, [name |-> name, content |-> content])]

\* the id the sink gives to the next uploaded file
NewFileID(s) == Len(s.files) + 1

\* /knowledge/{id}/file/add and /knowledge/{id}/file/remove
SinkAdd(s, id) == [s EXCEPT !.members = @ \cup {id}]
SinkRemove(s, id) == [s EXCEPT !.members = @ \ {id}]

RECURSIVE Ascending(_)
Ascending(S) ==
    IF S = {} THEN <<>>
    ELSE LET m == CHOOSE x \in S : \A y \in S : x <= y
         IN  <<m>> \o Ascending(S \ {m})

\* GET /knowledge/{id}: the files of the knowledge collection
KnowledgeFiles(s) == Ascending(s.members)

\* what http.DefaultClient.Do can return for each call of upload.go; only a
\* 200 (or 201) answer has changed the sink
SinkAnswers(kind) ==
    LET faults == IF sink.faults
                  THEN {NetErr, ErrStatus, Limited(<<>>)} ELSE {}
        garbled == IF sink.faults THEN {BadJSON} ELSE {}
    IN  CASE kind = "list"   -> faults \cup garbled
                                  \cup {OkResp(KnowledgeFiles(sink))}
          [] kind = "remove" -> faults \cup {OkResp(<<>>)}
          [] kind = "upload" -> faults \cup garbled
                                  \cup (IF sink.faults THEN {OkResp(0)} ELSE {})
                                  \cup {OkResp(NewFileID(sink)),
                                        CreatedResp(NewFileID(sink))}
          [] kind = "add"    -> faults \cup {OkResp(<<>>)}

----------------------------------------------------------------------------
(* ioutil.ReadDir *)

\* the bytes of file names, in ascending order
ByteOrder ==
    <<"-", ".", "0","1","2","3","4","5","6","7","8","9",
      "A","B","C","D","E","F","G","H","I","J","K","L","M",
      "N","O","P","Q","R","S","T","U","V","W","X","Y","Z", "_",
      "a","b","c","d","e","f","g","h","i","j","k","l","m",
      "n","o","p","q","r","s","t","u","v","w","x","y","z">>

ByteOf(c) == CHOOSE i \in DOMAIN ByteOrder : ByteOrder[i] = c

RECURSIVE NameLess(_, _)
NameLess(a, b) ==
    IF b = <<>> THEN FALSE
    ELSE IF a = <<>> THEN TRUE
    ELSE IF a[1] # b[1] THEN ByteOf(a[1]) < ByteOf(b[1])
    ELSE NameLess(Tail(a), Tail(b))

RECURSIVE SortNames(_)
SortNames(S) ==
    IF S = {} THEN <<>>
    ELSE LET m == CHOOSE x \in S : \A y \in S \ {x} : NameLess(x, y)
         IN  <<m>> \o SortNames(S \ {m})

\* the paths directly inside dir
Children(f, dir) ==
    {p \in DOMAIN f.files \cup f.dirs :
        Len(p) = Len(dir) + 1 /\ SubSeq(p, 1, Len(dir)) = dir}

\* ioutil.ReadDir(dir): the entries of dir, sorted by file name
ReadDir(f, dir) ==
    LET names == SortNames({p[Len(p)] : p \in Children(f, dir)})
    IN  [i \in 1..Len(names) |->
            [name |-> names[i], isDir |-> Append(dir, names[i]) \in f.dirs]]

\* strings.HasSuffix(name, ".md")
HasSuffix(name, suffix) ==
    /\ Len(name) >= Len(suffix)
    /\ SubSeq(name, Len(name) - Len(suffix) + 1, Len(name)) = suffix

\* line 173: the entries the handler uploads
Uploadable(e) == ~e.isDir /\ HasSuffix(e.name, MdSuffix)

\* lines 172-173: the next entry from position i on that is uploaded, 0 if none
NextEntry(es, i) ==
    IF \E j \in i..Len(es) : Uploadable(es[j])
    THEN CHOOSE j \in i..Len(es) :
            Uploadable(es[j]) /\ \A k \in i..(j - 1) : ~Uploadable(es[k])
    ELSE 0

----------------------------------------------------------------------------
(* UploadDocumentsHandler *)

ClearError ==
    [status |-> StatusInternalServerError, body |-> "Error clearing knowledge collection"]
ReadDirError ==
    [status |-> StatusInternalServerError, body |-> "Error reading directory"]
UploadCompleted == [status |-> StatusOK, body |-> "Upload completed."]

\* variant: only a transport error fails the listing
ClearListErr_TransportOnly(r) == r.err

\* variant: the body of the listing is not checked
ClearListErr_NoDecode(r) == r.err \/ r.status # StatusOK

\* lines 29-40: clearKnowledgeCollection returns an error
ClearListErr(r) == r.err \/ r.status # StatusOK \/ ~r.valid

\* lines 66-73: removeFileFromKnowledge returns an error
RemoveErr(r) == r.err \/ r.status # StatusOK

\* lines 105-121: uploadToOpenWebUI returns an error before the add call
UploadErr(r) ==
    \/ r.err
    \/ r.status # StatusOK /\ r.status # StatusCreated
    \/ ~r.valid
    \/ r.data = 0

\* lines 142-149: addToKnowledgeCollection returns an error
AddErr(r) == r.err \/ r.status # StatusOK

\* the sink has carried out the request it answered
Served(r) == ~r.err /\ r.status \in {StatusOK, StatusCreated} /\ r.valid

\* a sink call has returned
Called(kind, arg, r) == scalls' = Append(scalls, [kind |-> kind, arg |-> arg, answer |-> r])

SyncUnchanged == UNCHANGED <<cfgVars, cacheVars, goVars, handlerVars, sanVars>>

\* lines 162-163 and 22-29: a request for /upload arrives; the GET of the
\* knowledge collection leaves
StartSync ==
    /\ pc = "idle"
    /\ spc = "idle"
    /\ sruns < client.upload
    /\ sruns' = sruns + 1
    /\ syncResult' = NoResult
    /\ scalls' = <<>>
    /\ knowFiles' = <<>>
    /\ ridx' = 0
    /\ entries' = <<>>
    /\ eidx' = 0
    /\ fileID' = 0
    /\ spc' = "list"
    /\ sink' = sink
    /\ SyncUnchanged

\* lines 29-41 and 163-166: the answer of the GET; the first remove call
\* leaves, or the handler goes on to ReadDir
ClearListReturn ==
    /\ spc = "list"
    /\ \E r \in SinkAnswers("list") :
         /\ Called("list", 0, r)
         /\ IF ClearListErr(r)
            THEN /\ syncResult' = ClearError
                 /\ spc' = "idle"
                 /\ UNCHANGED <<knowFiles, ridx>>
            ELSE /\ knowFiles' = r.data
                 /\ ridx' = IF r.data = <<>> THEN 0 ELSE 1
                 /\ spc' = IF r.data = <<>> THEN "readdir" ELSE "remove"
                 /\ syncResult' = syncResult
    /\ UNCHANGED <<sink, sruns, entries, eidx, fileID>>
    /\ SyncUnchanged

\* variant: the loop ends after the first file
MoreFiles_FirstOnly(i, files) == FALSE

\* lines 41-45: the range loop over knowResp.Files goes on, whatever
\* removeFileFromKnowledge returned
MoreFiles(i, files) == i < Len(files)

\* variant: a failed remove call ends the clear phase with an error
RemoveReturn_AbortsOnError ==
    /\ spc = "remove"
    /\ \E r \in SinkAnswers("remove") :
         /\ Called("remove", knowFiles[ridx], r)
         /\ sink' = IF Served(r) THEN SinkRemove(sink, knowFiles[ridx]) ELSE sink
         /\ IF RemoveErr(r)
            THEN ridx' = 0 /\ spc' = "idle" /\ syncResult' = ClearError
            ELSE /\ syncResult' = syncResult
                 /\ IF MoreFiles(ridx, knowFiles)
                    THEN ridx' = ridx + 1 /\ spc' = "remove"
                    ELSE ridx' = 0 /\ spc' = "readdir"
    /\ UNCHANGED <<sruns, knowFiles, entries, eidx, fileID>>
    /\ SyncUnchanged

\* lines 66-75 and 41-47: the answer of a remove call; its error is logged
RemoveReturn ==
    /\ spc = "remove"
    /\ \E r \in SinkAnswers("remove") :
         /\ Called("remove", knowFiles[ridx], r)
         /\ sink' = IF Served(r) THEN SinkRemove(sink, knowFiles[ridx]) ELSE sink
    /\ IF MoreFiles(ridx, knowFiles)
       THEN ridx' = ridx + 1 /\ spc' = "remove"
       ELSE ridx' = 0 /\ spc' = "readdir"
    /\ UNCHANGED <<sruns, knowFiles, entries, eidx, fileID, syncResult>>
    /\ SyncUnchanged

\* the handler moves to the entry at position i (0: the loop is over,
\* lines 180-181)
GoToEntry(i) ==
    /\ eidx' = i
    /\ spc' = IF i = 0 THEN "idle" ELSE "upload"
    /\ syncResult' = IF i = 0 THEN UploadCompleted ELSE syncResult

\* variant: a directory that cannot be read is taken as empty
ReadDirReturn_IgnoresError ==
    /\ spc = "readdir"
    /\ entries' = IF DocumentsDir \in fs.dirs THEN ReadDir(fs, DocumentsDir) ELSE <<>>
    /\ GoToEntry(NextEntry(entries', 1))
    /\ UNCHANGED <<sink, sruns, knowFiles, ridx, fileID, scalls>>
    /\ SyncUnchanged

\* lines 167-175: ioutil.ReadDir(DocumentsDir); the upload of the first
\* Markdown file leaves
ReadDirReturn ==
    /\ spc = "readdir"
    /\ \/ /\ DocumentsDir \notin fs.dirs \/ sink.faults
          /\ syncResult' = ReadDirError
          /\ spc' = "idle"
          /\ UNCHANGED <<entries, eidx>>
       \/ /\ DocumentsDir \in fs.dirs
          /\ entries' = ReadDir(fs, DocumentsDir)
          /\ GoToEntry(NextEntry(entries', 1))
    /\ UNCHANGED <<sink, sruns, knowFiles, ridx, fileID, scalls>>
    /\ SyncUnchanged

\* line 174: filePath
UploadPath == PathJoin(DocumentsDir, entries[eidx].name)

\* variant: a failed upload ends the loop
UploadReturn_StopsOnError ==
    /\ spc = "upload"
    /\ \E r \in SinkAnswers("upload") :
         /\ Called("upload", entries[eidx].name, r)
         /\ sink' = IF Served(r) /\ r.data # 0
                    THEN SinkUpload(sink, entries[eidx].name, fs.files[UploadPath])
                    ELSE sink
         /\ IF UploadErr(r)
            THEN /\ fileID' = 0
                 /\ GoToEntry(0)
            ELSE /\ fileID' = r.data
                 /\ spc' = "add"
                 /\ UNCHANGED <<eidx, syncResult>>
    /\ UNCHANGED <<sruns, knowFiles, ridx, entries>>
    /\ SyncUnchanged

\* lines 80-123 and 175-177: the answer of POST /files/; the add call leaves,
\* or the error is logged and the loop goes on
UploadReturn ==
    /\ spc = "upload"
    /\ \E r \in SinkAnswers("upload") :
         /\ Called("upload", entries[eidx].name, r)
         /\ sink' = IF Served(r) /\ r.data # 0
                    THEN SinkUpload(sink, entries[eidx].name, fs.files[UploadPath])
                    ELSE sink
         /\ IF UploadErr(r)
            THEN /\ fileID' = 0
                 /\ GoToEntry(NextEntry(entries, eidx + 1))
            ELSE /\ fileID' = r.data
                 /\ spc' = "add"
                 /\ UNCHANGED <<eidx, syncResult>>
    /\ UNCHANGED <<sruns, knowFiles, ridx, entries>>
    /\ SyncUnchanged

\* lines 142-151 and 175-177: the answer of the add call
AddReturn ==
    /\ spc = "add"
    /\ \E r \in SinkAnswers("add") :
         /\ Called("add", fileID, r)
         /\ sink' = IF Served(r) THEN SinkAdd(sink, fileID) ELSE sink
    /\ fileID' = 0
    /\ GoToEntry(NextEntry(entries, eidx + 1))
    /\ UNCHANGED <<sruns, knowFiles, ridx, entries>>
    /\ SyncUnchanged

----------------------------------------------------------------------------
(* ExportDocumentsHandler, one step per iteration of its loop, against a    *)
(* source that answers a list call with an empty page exactly when the      *)
(* offset is at or beyond the number of its documents                       *)

\* documents.list {offset, limit}: empty at or beyond the end, and below it
\* the documents from the offset on, limit of them when limit is positive
SourcePage(corpus, off, lim) ==
    IF off >= Len(corpus) THEN <<>>
    ELSE LET first == IF off < 0 THEN 1 ELSE off + 1
             last  == IF lim > 0 /\ first + lim - 1 < Len(corpus)
                      THEN first + lim - 1 ELSE Len(corpus)
         IN  SubSeq(corpus, first, last)

\* s without its n-th element (s when n is 0)
Without(s, n) ==
    IF n = 0 THEN s
    ELSE [i \in 1..(Len(s) - 1) |-> IF i < n THEN s[i] ELSE s[i + 1]]

LoopUnchanged ==
    UNCHANGED <<cfgVars, cacheVars, restVars, op, open, bodyRead, waitDuration,
                clock, resp, docVars, idx, attempted, listCalls, pageLens>>

\* lines 228-230: a request for /export arrives
ExportBegins ==
    /\ pc = "idle"
    /\ runs < client.export
    /\ runs' = runs + 1
    /\ offset' = 0
    /\ page' = <<>>
    /\ result' = NoResult
    /\ sends' = <<>>
    /\ pc' = "fetch"
    /\ fs' = fs
    /\ LoopUnchanged

\* lines 36-56: fetchDocuments is answered 429 and sent again
ListLimited ==
    /\ pc = "fetch"
    /\ Len(sends) < source.retries
    /\ sends' = Append(sends, [at |-> <<>>, body |-> "full",
                               answer |-> Limited(<<"5", "0">>)])
    /\ UNCHANGED <<fs, pc, runs, offset, page, result>>
    /\ LoopUnchanged

\* lines 231-238: fetchDocuments(offset) returns; an error ends the run with
\* the failure result, an empty page ends it with the completion message
ListReturns ==
    /\ pc = "fetch"
    /\ sends' = <<>>
    /\ \/ /\ source.faults
          /\ result' = FetchError
          /\ pc' = "idle"
          /\ page' = <<>>
       \/ /\ page' = SourcePage(source.corpus, offset, limit)
          /\ result' = IF page' = <<>> THEN Completed ELSE result
          /\ pc' = IF page' = <<>> THEN "idle" ELSE "docs"
    /\ UNCHANGED <<fs, runs, offset>>
    /\ LoopUnchanged

\* lines 239-244: every document of the page is exported, the error of one
\* is logged, and offset += limit
PageExported ==
    /\ pc = "docs"
    /\ \E n \in 0..(IF source.faults THEN Len(page) ELSE 0) :
          fs' = Exported(fs, Without(page, n), CHOOSE name \in source.names : TRUE)
    /\ offset' = offset + limit
    /\ pc' = "fetch"
    /\ UNCHANGED <<runs, page, result, sends>>
    /\ LoopUnchanged

\* an export run for every limit LoadConfig yields that is not negative
InitLoop ==
    /\ \E c \in Corpora, n \in Names : source = StableSource(c, n, TRUE, MaxRetries)
    /\ client = [export |-> MaxRuns, upload |-> 0]
    /\ limit \in {l \in {LoadLimit(s) : s \in LimitStrs} : l >= 0}
    /\ fs = EmptyFS
    /\ sink = EmptySink
    /\ sanIn = <<>>
    /\ Start

NextLoop ==
    \/ ExportBegins
    \/ ListLimited
    \/ ListReturns
    \/ PageExported

\* the handler goroutine is scheduled as long as it can take a step
SpecLoop == InitLoop /\ [][NextLoop]_vars /\ WF_vars(NextLoop)
----------------------------------------------------------------------------
(* fetchCollectionName called from concurrent goroutines, statement by      *)
(* statement.  doRequestWithRateLimit is taken by what it returns: an error *)
(* or the first response that is not a 429.                                 *)

GoUnchanged == UNCHANGED <<cfgVars, handlerVars, syncVars, sanVars>>

\* exportAndSaveDocument line 192: fetchCollectionName(doc.CollectionId)
Resolve(t, id) ==
    /\ g[t].pc = "idle"
    /\ Len(g[t].hist) < MaxResolves
    /\ g' = [g EXCEPT ![t] = [@ EXCEPT !.pc = "lock", !.id = id, !.name = <<>>,
                                       !.err = FALSE,
                                       !.late = id \in succeeded,
                                       !.fresh = ~CacheHas(cache, id)]]
    /\ UNCHANGED <<mu, infoCalls, cacheVars>>
    /\ GoUnchanged

\* line 100: collectionCacheMu.Lock()
Lock(t) ==
    /\ g[t].pc = "lock"
    /\ mu = 0
    /\ mu' = t
    /\ g' = [g EXCEPT ![t].pc = "lookup"]
    /\ UNCHANGED <<infoCalls, cacheVars>>
    /\ GoUnchanged

\* variant: the lock is released on a hit only, and kept on a miss
Lookup_KeepsLock(t) ==
    /\ g[t].pc = "lookup"
    /\ IF CacheHas(cache, g[t].id)
       THEN /\ mu' = 0
            /\ g' = [g EXCEPT ![t] = [@ EXCEPT !.pc = "idle", !.name = cache[g[t].id],
                         !.hist = Append(@, [id |-> g[t].id, err |-> FALSE])]]
       ELSE /\ mu' = mu
            /\ g' = [g EXCEPT ![t].pc = "request"]
    /\ UNCHANGED <<infoCalls, cacheVars>>
    /\ GoUnchanged

\* lines 101-105: the lookup, Unlock, and the return on a hit
Lookup(t) ==
    /\ g[t].pc = "lookup"
    /\ mu' = 0
    /\ IF CacheHas(cache, g[t].id)
       THEN g' = [g EXCEPT ![t] = [@ EXCEPT !.pc = "idle", !.name = cache[g[t].id],
                    !.hist = Append(@, [id |-> g[t].id, err |-> FALSE])]]
       ELSE g' = [g EXCEPT ![t].pc = "request"]
    /\ UNCHANGED <<infoCalls, cacheVars>>
    /\ GoUnchanged

\* lines 108-123: the collections.info request leaves
SendInfo(t) ==
    /\ g[t].pc = "request"
    /\ infoCalls' = [infoCalls EXCEPT ![g[t].id] = @ + 1]
    /\ g' = [g EXCEPT ![t].pc = "wait"]
    /\ UNCHANGED <<mu, cacheVars>>
    /\ GoUnchanged

\* lines 123-141: doRequestWithRateLimit returns; the error returns
RecvInfo(t) ==
    /\ g[t].pc = "wait"
    /\ \E r \in {NetErr, ErrStatus, BadJSON} \cup {OkResp(n) : n \in source.names} :
         IF CollectionInfoErr(r)
         THEN /\ g' = [g EXCEPT ![t] = [@ EXCEPT !.pc = "idle", !.err = TRUE,
                         !.hist = Append(@, [id |-> g[t].id, err |-> TRUE])]]
              /\ cache' = CacheAfterError(cache, g[t].id)
              /\ failedIds' = failedIds \cup {g[t].id}
         ELSE /\ g' = [g EXCEPT ![t] = [@ EXCEPT !.pc = "lock2", !.name = r.data]]
              /\ cache' = cache
              /\ failedIds' = failedIds
    /\ UNCHANGED <<mu, infoCalls, succeeded>>
    /\ GoUnchanged

\* line 144: collectionCacheMu.Lock()
Lock2(t) ==
    /\ g[t].pc = "lock2"
    /\ mu = 0
    /\ mu' = t
    /\ g' = [g EXCEPT ![t].pc = "store"]
    /\ UNCHANGED <<infoCalls, cacheVars>>
    /\ GoUnchanged

\* lines 145-148: the store, Unlock, and the return of the name
Store(t) ==
    /\ g[t].pc = "store"
    /\ cache' = CacheStore(cache, g[t].id, g[t].name)
    /\ succeeded' = succeeded \cup {g[t].id}
    /\ mu' = 0
    /\ g' = [g EXCEPT ![t] = [@ EXCEPT !.pc = "idle",
                !.hist = Append(@, [id |-> g[t].id, err |-> FALSE])]]
    /\ UNCHANGED <<infoCalls, failedIds>>
    /\ GoUnchanged

NextCache ==
    \E t \in Goroutines :
        \/ \E id \in CollectionIds : Resolve(t, id)
        \/ Lock(t)
        \/ Lookup(t)
        \/ SendInfo(t)
        \/ RecvInfo(t)
        \/ Lock2(t)
        \/ Store(t)

----------------------------------------------------------------------------
Next ==
    \/ StartExport
    \/ DoRequest
    \/ RateLimited
    \/ Sleep
    \/ FetchDocumentsReturn
    \/ ExportReturn
    \/ CollectionInfoReturn
    \/ Save
    \/ NextDocument

\* the export pipeline against a source with every document of the model
Spec == Init /\ [][Next]_vars

\* the export pipeline against a source that answers 429 with every
\* Retry-After value of the model
SpecRate == InitRate /\ [][Next]_vars

\* the sync pipeline
NextSync ==
    \/ StartSync
    \/ ClearListReturn
    \/ RemoveReturn
    \/ ReadDirReturn
    \/ UploadReturn
    \/ AddReturn

SpecSync == InitSync /\ [][NextSync]_vars

\* both pipelines, where no call is rate limited or fails
NextRepeat ==
    \/ StartExport
    \/ DoRequest
    \/ FetchDocumentsReturn
    \/ ExportReturn
    \/ CollectionInfoReturn
    \/ Save
    \/ NextDocument
    \/ StartSync
    \/ ClearListReturn
    \/ RemoveReturn
    \/ ReadDirReturn
    \/ UploadReturn
    \/ AddReturn

SpecRepeat == InitRepeat /\ [][NextRepeat]_vars

\* the export pipeline over colliding documents
SpecConfine == InitConfine /\ [][Next]_vars

\* both pipelines, the source failing as it can
NextFrame ==
    \/ Next
    \/ NextSync

SpecFrame == InitFrame /\ [][NextFrame]_vars

SpecCollide == InitCollide /\ [][Next]_vars

\* exportAndSaveDocument line 155: utils.SanitizeURLTitle(doc.Title)
Slugify ==
    /\ sanOut.fn = "none"
    /\ sanOut' = [fn |-> "slugify", n |-> 1, prev |-> sanIn,
                  out |-> SanitizeURLTitle(sanIn)]
    /\ UNCHANGED <<cfgVars, cacheVars, goVars, handlerVars, syncVars, sanIn>>

\* exportAndSaveDocument lines 157 and 199: utils.SanitizeFilename
FilenameSafe ==
    /\ sanOut.fn = "none"
    /\ sanOut' = [fn |-> "filename", n |-> 1, prev |-> sanIn,
                  out |-> SanitizeFilename(sanIn)]
    /\ UNCHANGED <<cfgVars, cacheVars, goVars, handlerVars, syncVars, sanIn>>

\* the sanitizer is called with what it returned
Again ==
    /\ sanOut.n = 1
    /\ sanOut' = [sanOut EXCEPT !.n = 2, !.prev = sanOut.out,
                     !.out = IF sanOut.fn = "slugify"
                             THEN SanitizeURLTitle(sanOut.out)
                             ELSE SanitizeFilename(sanOut.out)]
    /\ UNCHANGED <<cfgVars, cacheVars, goVars, handlerVars, syncVars, sanIn>>

NextSanitize ==
    \/ Slugify
    \/ FilenameSafe
    \/ Again

\* the two sanitizers over every title of the model
SpecSanitize == InitSanitize /\ [][NextSanitize]_vars

\* goroutines resolving collection names concurrently
SpecCache == InitCache /\ [][NextCache]_vars

----------------------------------------------------------------------------
(* Properties of the export pipeline *)

\* C1: in one run the documents.list calls are issued one at a time with
\* offsets 0, L, 2L, ... (L the configured limit, whatever the pages held);
\* no list call follows the first empty page and the run then reports
\* success, so k non-empty pages and an empty one take exactly k+1 calls.
PaginationByLimit ==
    /\ \A i \in DOMAIN listCalls : listCalls[i] = (i - 1) * limit
    /\ Len(listCalls) - Len(pageLens) \in {0, 1}
    /\ op = "list" => /\ Len(listCalls) = Len(pageLens) + 1
                      /\ offset = listCalls[Len(listCalls)]
    /\ \A i \in DOMAIN pageLens :
          pageLens[i] = 0 => /\ i = Len(pageLens)
                             /\ Len(listCalls) = i
                             /\ pc = "idle"
                             /\ result = Completed
    /\ result = Completed => /\ pageLens # <<>>
                             /\ pageLens[Len(pageLens)] = 0
                             /\ \A i \in 1..(Len(pageLens) - 1) : pageLens[i] > 0

\* pages of 1 and 0 documents with limit 1: two list calls, then success
PaginationTwoCalls ==
    /\ limit = 1
    /\ pageLens = <<1, 0>>
    /\ listCalls = <<0, 1>>
    /\ result = Completed

\* C2: export-and-save is attempted exactly once for every document of a
\* fetched page, in page order, whether or not an earlier document failed;
\* after the page the run goes on with the next list call, and a run whose
\* page fetches all succeeded reports "Export completed.".
EveryDocumentAttempted ==
    /\ [](/\ page # <<>> => idx \in 1..Len(page) /\ attempted = SubSeq(page, 1, idx)
          /\ (pc = "idle" /\ runs > 0 /\ Len(listCalls) = Len(pageLens))
                => result = Completed)
    /\ [][pc = "exported" =>
            IF idx < Len(page)
            THEN /\ op' = "export"
                 /\ idx' = idx + 1
                 /\ attempted' = Append(attempted, page[idx + 1])
            ELSE /\ attempted = page
                 /\ op' = "list"
                 /\ pc' = "send"]_vars

\* the second document of a page is exported although the first one failed
SecondExportedAfterFailure ==
    /\ pc = "exported"
    /\ page = <<Doc1, Doc2>>
    /\ idx = 2
    /\ experr = "nil"
    /\ DOMAIN fs.files = {FilePath(DocumentsDir, Doc2)}

\* C3: a page fetch that fails (transport error, status other than 200 and
\* 429, decode error) aborts the run: no further list call or export, the
\* caller gets the failure result, and the files written so far stay.
PageFetchFailureAborts ==
    /\ [](result = FetchError => pc = "idle" /\ op = "none")
    /\ [][(/\ pc = "returned"
           /\ op = "list"
           /\ resp.err \/ resp.status # StatusOK \/ ~resp.valid)
            => /\ result' = FetchError
               /\ pc' = "idle"
               /\ fs' = fs
               /\ listCalls' = listCalls
               /\ pageLens' = pageLens]_vars

\* the second page fetch fails after the first page left a file
FailureAfterFirstPage ==
    /\ result = FetchError
    /\ Len(pageLens) = 1
    /\ DOMAIN fs.files # {}

----------------------------------------------------------------------------
(* Properties of doRequestWithRateLimit *)

LastSend == sends[Len(sends)]

\* C4: doRequestWithRateLimit returns the first response that is not a 429,
\* or a network error at once; after every 429 it sends again, so a 429 is
\* never returned.
FirstNon429OrError ==
    /\ [](/\ \A i \in 1..(Len(sends) - 1) :
               ~sends[i].answer.err /\ sends[i].answer.status = StatusTooManyRequests
          /\ pc = "returned" =>
               /\ sends # <<>>
               /\ resp = LastSend.answer
               /\ resp.err \/ resp.status # StatusTooManyRequests
          /\ pc \in {"limited", "sleep"} =>
               /\ sends # <<>>
               /\ ~LastSend.answer.err
               /\ LastSend.answer.status = StatusTooManyRequests)
    /\ [][/\ pc = "limited" => pc' = "sleep"
          /\ pc = "sleep" => pc' = "send" /\ sends' = sends
          /\ (pc = "send" /\ sends' # sends) => Len(sends') = Len(sends) + 1]_vars

\* two 429 answers, then the 200 answer is returned
ReturnedAfterTwoRetries ==
    /\ pc = "returned"
    /\ Len(sends) = 3
    /\ resp.status = StatusOK

\* the wait the Retry-After header asks for, in nanoseconds: the header as
\* milliseconds when it is an integer, 1000 ms otherwise
RequiredWait(h) ==
    IF h # <<>> /\ Atoi(h).ok
    THEN IF Atoi(h).neg THEN <<>> ELSE MulAdd(Atoi(h).mag, 1000000, 0)
    ELSE MulAdd(NatLimbs(1000), 1000000, 0)

\* C5: before each retry the 429 body is closed, and the next attempt is not
\* sent before the Retry-After milliseconds (1000 ms without a usable header)
\* have elapsed.
WaitsRetryAfter ==
    /\ pc = "sleep" => open = (IF op = "info" THEN 1 ELSE 0)
    /\ \A i \in 2..Len(sends) :
          Ge(sends[i].at,
             Add(sends[i - 1].at, RequiredWait(sends[i - 1].answer.retryAfter)))

----------------------------------------------------------------------------
(* Properties of the collection-name cache *)

Ok(id) == [id |-> id, err |-> FALSE]

\* C6: once a resolution of a collection id has succeeded, every later
\* resolution of that id returns the cached name without a collections.info
\* call; two sequential resolutions of one id make exactly one call.
CachedResolutionMakesNoCall ==
    /\ [](/\ \A t \in Goroutines : g[t].late => g[t].pc \in {"lock", "lookup", "idle"}
          /\ \A c \in CollectionIds :
               (g[1].hist = <<Ok(c), Ok(c)>> /\ g[2].hist = <<>> /\ g[2].pc = "idle")
                    => infoCalls[c] = 1)
    /\ [][\A t \in Goroutines :
            (g[t].late /\ g[t].pc = "lookup" /\ g'[t].pc # "lookup")
                => /\ g'[t].pc = "idle"
                   /\ ~g'[t].err
                   /\ g'[t].name = cache[g[t].id]
                   /\ infoCalls' = infoCalls]_vars

\* goroutine 1 has resolved c1 twice, alone, with one call
ResolvedTwiceOneCall ==
    /\ g[1].hist = <<Ok("c1"), Ok("c1")>>
    /\ g[2].hist = <<>>
    /\ infoCalls["c1"] = 1

\* both goroutines have finished a first resolution of c, each begun while c
\* was not cached
BothFirstDone(c) ==
    \A t \in Goroutines :
        /\ g[t].pc = "idle"
        /\ Len(g[t].hist) = 1
        /\ g[t].id = c
        /\ g[t].fresh

Returned == {t \in Goroutines : ~g[t].err}

\* C7, as claimed: two concurrent first-time resolutions of one id make at
\* most two collections.info calls and the name each caller returns is the
\* name the cache holds once both have finished.
ConcurrentResolveSameValue ==
    \A c \in CollectionIds :
        BothFirstDone(c) =>
            /\ infoCalls[c] <= 2
            /\ \A t \in Returned : CacheHas(cache, c) /\ g[t].name = cache[c]

\* C7, amended: at most two calls; the cache then holds the name one of the
\* callers returned, and it is the name both returned when the source
\* answered both with the same name.
ConcurrentResolveLastStore ==
    \A c \in CollectionIds :
        BothFirstDone(c) =>
            /\ infoCalls[c] <= 2
            /\ Returned # {} =>
                 /\ CacheHas(cache, c)
                 /\ \E t \in Returned : g[t].name = cache[c]
                 /\ (\A t, u \in Returned : g[t].name = g[u].name)
                        => \A t \in Returned : g[t].name = cache[c]

\* both callers went to the network for c1 and both returned a name
BothResolvedConcurrently ==
    /\ BothFirstDone("c1")
    /\ Returned = Goroutines
    /\ infoCalls["c1"] = 2

\* C8: a failed resolution returns the error and leaves the cache as it was
\* (no entry for the id, no other entry changed), so the next resolution of
\* the id goes to the network again.
FailedResolutionLeavesCache ==
    /\ [](resolve.kind = "fail" =>
            /\ cache = resolve.before
            /\ CurDoc.CollectionId \notin DOMAIN cache)
    /\ [][(/\ pc = "returned"
           /\ op = "export"
           /\ pc' # "exported"
           /\ CurDoc.CollectionId \in failedIds \ succeeded)
            => op' = "info"]_vars

\* the resolution of c2 fails while the cache holds c1, after an earlier
\* failure for c2
FailedWithOtherEntryCached ==
    /\ pc = "save"
    /\ resolve.kind = "fail"
    /\ CurDoc.CollectionId = "c2"
    /\ DOMAIN cache = {"c1"}

----------------------------------------------------------------------------
(* Properties of exportAndSaveDocument *)

Root == << <<"t","m","p">> >>
SubDir(name) == IF name = <<>> THEN Root ELSE Append(Root, name)

\* C9: when resolving the collection name fails the document is still
\* exported, into the root staging directory; when it succeeds the file goes
\* to the subdirectory filenameSafe(collectionName); without a collectionId no
\* resolution is attempted and the file goes to the root staging directory.
LookupFailureFallsBackToRoot ==
    /\ op = "info" => CurDoc.CollectionId # ""
    /\ (pc \in {"save", "exported"} /\ experr # "fetch") =>
          /\ CurDoc.CollectionId = "" => resolve.kind = "none" /\ dirPath = Root
          /\ CurDoc.CollectionId # "" => resolve.kind \in {"fail", "ok", "hit"}
          /\ resolve.kind = "fail" => dirPath = Root
          /\ resolve.kind \in {"ok", "hit"} =>
                dirPath = SubDir(SanitizeFilename(resolve.name))
          /\ experr \in {"none", "nil", "mkdir", "write"}
          /\ experr = "nil" =>
                Append(dirPath, SanitizeFilename(CurDoc.Title) \o MdSuffix)
                    \in DOMAIN fs.files

\* a document is written to the root directory after its lookup failed
WrittenToRootAfterFailure ==
    /\ pc = "exported"
    /\ experr = "nil"
    /\ resolve.kind = "fail"
    /\ Append(Root, SanitizeFilename(CurDoc.Title) \o MdSuffix) \in DOMAIN fs.files

HRTeam == <<"H","R"," ","T","e","a","m">>
MyDocPath == << <<"t","m","p">>, <<"H","R","_","T","e","a","m">>,
                <<"M","y","_","D","o","c",".","m","d">> >>
MyDocURL == <<"h","t","t","p","s",":","/","/","v","i","e","w",".","e","x","a",
              "m","p","l","e",".","c","o","m","/","m","y","-","d","o","c","-",
              "x","y","z">>

\* C10: a successful export of a document (title t, urlSlugId u, resolved
\* collection c, body b) leaves one file, at
\* <stagingDir>/filenameSafe(c)/filenameSafe(t).md, holding
\* "Document URL: <docsBase>/<slugify(t)>-<u>", an empty line and b; for
\* "My Doc!", "xyz", "HR Team" that is ./tmp/HR_Team/My_Doc.md with the URL
\* https://view.example.com/my-doc-xyz.
ExportedFileContent ==
    /\ []((pc = "exported" /\ experr = "nil" /\ resolve.kind \in {"ok", "hit"}) =>
            LET path == Append(SubDir(SanitizeFilename(resolve.name)),
                               SanitizeFilename(CurDoc.Title) \o MdSuffix)
            IN  /\ path \in DOMAIN fs.files
                /\ fs.files[path] =
                     UrlLabel \o DocsBaseURL \o <<"/">>
                       \o SanitizeURLTitle(CurDoc.Title) \o <<"-">> \o CurDoc.URLId
                       \o <<"\n", "\n">> \o expBody
                /\ (CurDoc = Doc1 /\ resolve.name = HRTeam) =>
                     /\ path = MyDocPath
                     /\ fs.files[path] = UrlLabel \o MyDocURL \o <<"\n", "\n">> \o expBody)
    /\ [][(pc = "save" /\ experr' = "nil") =>
            \E path \in DOMAIN fs'.files :
                /\ DOMAIN fs'.files = DOMAIN fs.files \cup {path}
                /\ \A q \in DOMAIN fs.files \ {path} : fs'.files[q] = fs.files[q]]_vars

\* "My Doc!" of collection "HR Team" has been exported
MyDocExported ==
    /\ pc = "exported"
    /\ experr = "nil"
    /\ CurDoc = Doc1
    /\ resolve.name = HRTeam
    /\ MyDocPath \in DOMAIN fs.files

----------------------------------------------------------------------------
(* Properties of the sync pipeline *)

Kinds(ks) == {i \in DOMAIN scalls : scalls[i].kind \in ks}

\* C11: when the listing of the sink knowledge collection fails (transport
\* error, status other than 200, decode error) the sync ends with the failure
\* result and no remove, upload or add call; when the listing succeeds with
\* no file, no remove call is made and the run goes on to populate.
ListFailureAborts ==
    /\ [](syncResult = ClearError =>
            /\ spc = "idle"
            /\ Len(scalls) = 1
            /\ scalls[1].kind = "list")
    /\ [](spc = "readdir" /\ knowFiles = <<>> => Kinds({"remove"}) = {})
    /\ [][(spc = "list" /\ scalls' # scalls) =>
            LET r == scalls'[1].answer
            IN  IF r.err \/ r.status # StatusOK \/ ~r.valid
                THEN /\ syncResult' = ClearError
                     /\ spc' = "idle"
                     /\ sink' = sink
                ELSE /\ syncResult' = NoResult
                     /\ r.data = <<>> => spc' = "readdir"
                     /\ r.data # <<>> => spc' = "remove"]_vars

\* the listing failed although the collection has members and the staging
\* directory has files
ListFailedWithWorkToDo ==
    /\ syncResult = ClearError
    /\ sink.members = {1, 2}
    /\ Children(fs, DocumentsDir) # {}

\* C12: in one sync run the clear phase precedes the populate phase: an
\* upload or add call is issued only after the listing and every remove call
\* of the run have returned, and no remove call follows the first upload.
ClearPrecedesPopulate ==
    /\ scalls # <<>> => scalls[1].kind = "list"
    /\ \A i \in Kinds({"upload", "add"}) : \A j \in Kinds({"list", "remove"}) : j < i
    /\ spc \in {"list", "remove"} => Kinds({"upload", "add"}) = {}
    /\ spc \in {"upload", "add"} =>
          /\ Kinds({"list"}) = {1}
          /\ Kinds({"remove"}) = 2..(Len(knowFiles) + 1)
          /\ \A i \in DOMAIN knowFiles : scalls[i + 1].arg = knowFiles[i]

\* the first upload is in flight after the listing and two remove calls
FirstUploadAfterTwoRemoves ==
    /\ spc = "upload"
    /\ Len(knowFiles) = 2
    /\ Len(scalls) = 3

\* C13, as claimed: when a sync run issues its first upload the knowledge
\* collection has no member.
EmptyAtFirstUpload ==
    (spc = "upload" /\ Kinds({"upload"}) = {}) => sink.members = {}

\* the remove calls of the run that succeeded
Removed == {scalls[i].arg : i \in {j \in Kinds({"remove"}) :
                ~scalls[j].answer.err /\ scalls[j].answer.status = StatusOK}}

\* C13, amended: when a sync run issues its first upload the members of the
\* knowledge collection are the listed files whose remove call failed; the
\* collection is empty when every remove call succeeded.
UnremovedAtFirstUpload ==
    (spc = "upload" /\ Kinds({"upload"}) = {}) =>
        /\ sink.members = Range(knowFiles) \ Removed
        /\ Removed = Range(knowFiles) => sink.members = {}

\* the first upload is in flight after two successful remove calls
FirstUploadAfterClear ==
    /\ spc = "upload"
    /\ Kinds({"upload"}) = {}
    /\ Len(knowFiles) = 2
    /\ Removed = {1, 2}
    /\ sink.members = {}

\* the members of the knowledge collection that hold the file at path p
MembersHolding(p) ==
    {id \in sink.members :
        /\ sink.files[id].name = p[Len(p)]
        /\ sink.files[id].content = fs.files[p]}

SyncCompleted == spc = "idle" /\ sruns >= 1 /\ syncResult = UploadCompleted

\* C14: after an export run and a sync run in which no call fails, every
\* file the export wrote, the files in collection subdirectories included,
\* has been uploaded and registered with the knowledge collection exactly
\* once.
EveryExportedFileSynced ==
    SyncCompleted => \A p \in DOMAIN fs.files : Cardinality(MembersHolding(p)) = 1

\* C15: no outbound call of either pipeline ends with a 429 answer: the call
\* is sent again until the answer is not a 429.
RateLimitNeverAnError ==
    /\ pc = "returned" => resp.err \/ resp.status # StatusTooManyRequests
    /\ \A i \in DOMAIN scalls :
          scalls[i].answer.err \/ scalls[i].answer.status # StatusTooManyRequests

\* the Markdown files directly in the staging directory
RootFiles ==
    IF DocumentsDir \in fs.dirs
    THEN {Append(DocumentsDir, e.name) :
            e \in {x \in Range(ReadDir(fs, DocumentsDir)) : Uploadable(x)}}
    ELSE {}

\* C16: with a source, a staging directory and a sink that do not change and
\* no failing call, the staging directory after two export runs is what it is
\* after one (the documents written in list order over an empty directory),
\* and after two sync runs the knowledge collection holds one member for
\* each uploaded Markdown file, as after one.
TriggersIdempotent ==
    /\ (pc = "idle" /\ runs >= 1 /\ result = Completed) =>
          fs = Exported(EmptyFS, source.corpus, CHOOSE n \in source.names : TRUE)
    /\ SyncCompleted =>
          /\ Cardinality(sink.members) = Cardinality(RootFiles)
          /\ \A p \in RootFiles : Cardinality(MembersHolding(p)) = 1

\* two export runs and two sync runs have completed, with two files to upload
TwoRunsOfEach ==
    /\ runs = 2
    /\ result = Completed
    /\ sruns = 2
    /\ SyncCompleted
    /\ Cardinality(RootFiles) = 2
    /\ Cardinality(sink.members) = 2

----------------------------------------------------------------------------
(* Colliding documents *)

\* the path the claim gives to a document: a function of the resolved
\* collection name (none: the root directory) and the title
PathOf(hasName, name, title) ==
    Append(IF hasName THEN SubDir(SanitizeFilename(name)) ELSE Root,
           SanitizeFilename(title) \o MdSuffix)

ContentOf(doc, body) ==
    UrlLabel \o DocsBaseURL \o <<"/">> \o SanitizeURLTitle(doc.Title) \o <<"-">>
      \o doc.URLId \o <<"\n", "\n">> \o body

SavePath == PathOf(resolve.kind \in {"ok", "hit"}, resolve.name, CurDoc.Title)

\* the files after the path has been given data
Overwritten(files, path, data) ==
    [q \in DOMAIN files \cup {path} |-> IF q = path THEN data ELSE files[q]]

\* the files written before have their content, but for those at paths
Kept(before, after, paths) ==
    \A q \in DOMAIN before \ paths : q \in DOMAIN after /\ after[q] = before[q]

CollidePath == PathOf(TRUE, HRTeam, Doc3.Title)

----------------------------------------------------------------------------
(* The sanitizers *)

SlugLetters == {"a","b","c","d","e","f","g","h","i","j","k","l","m",
                "n","o","p","q","r","s","t","u","v","w","x","y","z"}
SlugDigits == {"0","1","2","3","4","5","6","7","8","9"}
CapitalLetters == {"A","B","C","D","E","F","G","H","I","J","K","L","M",
                   "N","O","P","Q","R","S","T","U","V","W","X","Y","Z"}

\* C18: slugify is idempotent, its output consists of characters of
\* [a-z0-9] separated by single hyphens, with no hyphen first or last, and
\* the empty title gives the empty slug
SlugifyIdempotentAndClean ==
    sanOut.fn = "slugify" =>
        LET out == sanOut.out IN
        /\ sanOut.n = 2 => out = sanOut.prev
        /\ \A i \in DOMAIN out : out[i] \in SlugLetters \cup SlugDigits \cup {"-"}
        /\ \A i \in DOMAIN out :
              out[i] = "-" => /\ i > 1 /\ i < Len(out)
                              /\ out[i - 1] # "-" /\ out[i + 1] # "-"
        /\ sanOut.prev = <<>> => out = <<>>

\* the slug of "A!b" was computed, then the slug of that slug
SlugOfSlugComputed ==
    /\ sanIn = <<"A", "!", "b">>
    /\ sanOut = [fn |-> "slugify", n |-> 2, prev |-> <<"a", "-", "b">>,
                 out |-> <<"a", "-", "b">>]

\* what filenameSafe is to make of a title: an underscore for a space,
\* nothing for any other character outside [A-Za-z0-9_-]
RECURSIVE SafeName(_)
SafeName(t) ==
    IF t = <<>> THEN <<>>
    ELSE (IF Head(t) = " " THEN <<"_">>
          ELSE IF Head(t) \in SlugLetters \cup CapitalLetters \cup SlugDigits \cup {"_", "-"}
               THEN <<Head(t)>>
               ELSE <<>>) \o SafeName(Tail(t))

\* C19: filenameSafe replaces every space by an underscore, deletes every
\* other character outside [A-Za-z0-9_-], is idempotent, and maps the empty
\* title to the empty name
FilenameSafeReplacesAndDeletes ==
    sanOut.fn = "filename" =>
        /\ sanOut.n = 1 => sanOut.out = SafeName(sanIn)
        /\ sanOut.n = 2 => sanOut.out = sanOut.prev
        /\ \A i \in DOMAIN sanOut.out :
              sanOut.out[i] \in SlugLetters \cup CapitalLetters \cup SlugDigits \cup {"_", "-"}
        /\ sanOut.prev = <<>> => sanOut.out = <<>>

\* the safe name of "A !" was computed, then the safe name of that name
SafeNameOfSafeNameComputed ==
    /\ sanIn = <<"A", " ", "!">>
    /\ sanOut = [fn |-> "filename", n |-> 2, prev |-> <<"A", "_">>,
                 out |-> <<"A", "_">>]

----------------------------------------------------------------------------
(* The lock of the collection name cache *)

\* the goroutine is at a statement that reads or writes the map
AtMap(t) == g[t].pc \in {"lookup", "store"}

\* the goroutine holds the lock exactly at the statements on the map: not
\* while its request is in flight, and not once it has returned
HeldAtMapOnly == \A t \in Goroutines : mu = t <=> AtMap(t)

\* the map changes only in a step of a goroutine that holds the lock and
\* is at the store
WrittenUnderLock ==
    cache' # cache =>
        \E t \in Goroutines : mu = t /\ g[t].pc = "store" /\ g'[t].pc = "idle"

\* C20: every read and write of the cache map happens with the lock held,
\* the lock is not held while a collections.info request is in flight, and
\* every return of fetchCollectionName, the error returns included, leaves
\* the lock released
LockDiscipline == []HeldAtMapOnly /\ [][WrittenUnderLock]_vars

\* a goroutine that returned an error before holds the lock at the store
\* while the request of the other goroutine is in flight
StoreDuringOtherRequest ==
    /\ g[1].pc = "wait"
    /\ mu = 2
    /\ g[2].pc = "store"
    /\ Len(g[2].hist) = 1
    /\ g[2].hist[1].err

----------------------------------------------------------------------------
(* The clear phase and the populate phase, call by call *)

\* the remove calls that have returned, in the order of their return
RemoveCalls == SelectSeq(scalls, LAMBDA c : c.kind = "remove")

\* the sink call has failed
Failed(c) == c.answer.err \/ c.answer.status # StatusOK

\* C21: after a successful listing one remove call is issued for every file
\* id of the listing, in listing order, whether or not an earlier removal
\* failed; a failed removal does not fail the clear phase or the run, and
\* the populate phase runs.
OneRemovePerListedFile ==
    /\ [](spc = "remove" =>
            /\ Len(RemoveCalls) = ridx - 1
            /\ \A i \in 1..(ridx - 1) : RemoveCalls[i].arg = knowFiles[i])
    /\ []((Kinds({"list"}) # {} /\ spc # "remove" /\ syncResult # ClearError) =>
            /\ Len(RemoveCalls) = Len(knowFiles)
            /\ \A i \in DOMAIN knowFiles : RemoveCalls[i].arg = knowFiles[i])
    /\ [](Kinds({"remove"}) # {} => syncResult # ClearError)
    /\ [][spc = "remove" =>
            /\ syncResult' = syncResult
            /\ spc' = IF ridx < Len(knowFiles) THEN "remove" ELSE "readdir"]_vars

\* a run has completed in which both remove calls failed and a file was
\* uploaded afterwards
CompletedAfterFailedRemoves ==
    /\ syncResult = UploadCompleted
    /\ Len(RemoveCalls) = 2
    /\ Failed(RemoveCalls[1])
    /\ Failed(RemoveCalls[2])
    /\ Kinds({"upload"}) # {}

\* the names of the upload calls that have returned, in order
UploadedNames ==
    LET ups == SelectSeq(scalls, LAMBDA c : c.kind = "upload")
    IN  [i \in DOMAIN ups |-> ups[i].arg]

\* the names of the entries of the staging directory that satisfy want, in
\* the order of the directory listing
EntryNames(want(_)) ==
    LET es == SelectSeq(entries, want)
    IN  [i \in DOMAIN es |-> es[i].name]

\* the answer of an upload call carries a success status and a usable id
UsableID(r) ==
    /\ ~r.err
    /\ r.status \in {StatusOK, StatusCreated}
    /\ r.valid
    /\ r.data # 0

\* an add call is the call after the upload whose id it carries, and the
\* populate phase ends with the completion message
AddFollowsItsUpload ==
    /\ \A i \in Kinds({"add"}) :
          /\ i > 1
          /\ scalls[i - 1].kind = "upload"
          /\ UsableID(scalls[i - 1].answer)
          /\ scalls[i].arg = scalls[i - 1].answer.data
    /\ (spc = "idle" /\ Kinds({"upload"}) # {}) => syncResult = UploadCompleted

EndsInMd(e) == HasSuffix(e.name, <<".", "m", "d">>)
FileEndsInMd(e) == ~e.isDir /\ EndsInMd(e)

\* C22, as claimed: one upload is attempted for every entry of the staging
\* directory whose name ends in .md, whether or not an earlier file failed;
\* an add call follows only an upload that returned a usable id, carries
\* that id, and is issued at most once per upload; a failed file does not
\* keep the run from ending with the completion message.
UploadPerMdEntry ==
    /\ AddFollowsItsUpload
    /\ syncResult = UploadCompleted => UploadedNames = EntryNames(EndsInMd)

\* C22, amended: the same for every entry that is not a directory and whose
\* name ends in .md.
UploadPerMdFile ==
    /\ AddFollowsItsUpload
    /\ syncResult = UploadCompleted => UploadedNames = EntryNames(FileEndsInMd)

\* a run has completed in which the first upload failed, the second returned
\* no usable id and neither was registered, beside a directory named Z.md
CompletedAfterFailedUploads ==
    /\ syncResult = UploadCompleted
    /\ Len(UploadedNames) = 2
    /\ Kinds({"add"}) = {}
    /\ \E i \in Kinds({"upload"}) : scalls[i].answer.err
    /\ \E i \in Kinds({"upload"}) : Served(scalls[i].answer) /\ scalls[i].answer.data = 0
    /\ \E i \in DOMAIN entries : entries[i].isDir /\ EndsInMd(entries[i])

----------------------------------------------------------------------------
(* Termination of the export loop *)

\* C23: every export run ends, with the completion message or the failure
\* result, for every limit that LoadConfig accepts, when the source answers
\* list calls at or beyond its document count with an empty page, list
\* calls below it with a non-empty page, and every request after finitely
\* many 429 answers.
ExportRunTerminates == (pc = "fetch") ~> (result \in {Completed, FetchError})

----------------------------------------------------------------------------
(* The frame of a failed export fetch *)

\* the answer of documents.export that exportAndSaveDocument holds is a
\* transport error, a status other than 200, or a body that does not decode
ExportFetchFailed ==
    /\ pc = "returned"
    /\ op = "export"
    /\ (resp.err \/ resp.status # StatusOK \/ ~resp.valid)

\* C24: a document whose export fetch fails is the only thing aborted, and
\* the staging directory is as it was: no directory and no file is created
\* or truncated and no collection name is looked up for the document, the
\* body being fetched before the collection is resolved and before anything
\* is written.
FailedFetchLeavesStaging ==
    /\ [][op = "export" => fs' = fs /\ cache' = cache]_vars
    /\ [][ExportFetchFailed =>
            /\ experr' = "fetch"
            /\ pc' = "exported"
            /\ resolve' = NoResolve
            /\ op' = "none"
            /\ result' = result]_vars
    /\ [](experr = "fetch" => pc = "exported" /\ resolve = NoResolve /\ dirPath = <<>>)
    /\ [][(pc = "exported" /\ experr = "fetch") =>
            /\ fs' = fs
            /\ pc' = "send"
            /\ result' = result
            /\ op' = IF idx < Len(page) THEN "export" ELSE "list"]_vars

\* the export of the second document of a page has failed after the first
\* was written; its collection has not been looked up
SecondFetchFailedAfterWrite ==
    /\ pc = "exported"
    /\ experr = "fetch"
    /\ idx = 2
    /\ fs.files # <<>>
    /\ CurDoc.CollectionId # ""
    /\ CurDoc.CollectionId \notin DOMAIN cache
    /\ CurDoc.CollectionId \notin failedIds

----------------------------------------------------------------------------
(* The request of a retry *)

\* C25: every attempt of doRequestWithRateLimit transmits the request as the
\* first attempt did, with its complete body, so that the attempt after a
\* 429 can be answered with the 200 the calling operation succeeds with.
RetrySendsSameRequest ==
    \A i \in DOMAIN sends : sends[i].body = sends[1].body

----------------------------------------------------------------------------
(* Path confinement *)

SafeChars == SlugLetters \cup CapitalLetters \cup SlugDigits \cup {"_", "-"}

\* a name of characters of [A-Za-z0-9_-] only
SafeComponent(c) == \A i \in DOMAIN c : c[i] \in SafeChars

\* a file name whose stem is of characters of [A-Za-z0-9_-] and that ends in .md
SafeMdName(c) ==
    /\ Len(c) >= 3
    /\ SubSeq(c, Len(c) - 2, Len(c)) = <<".", "m", "d">>
    /\ SafeComponent(SubSeq(c, 1, Len(c) - 3))

\* C26: whatever the titles and the collection names are, every file the
\* export writes lies directly in the staging directory or in a direct
\* subdirectory of it, the name of the subdirectory and the stem of the file
\* have characters of [A-Za-z0-9_-] only, the file name ends in .md, and
\* nothing is made outside the staging directory.
ExportConfined ==
    /\ \A p \in DOMAIN fs.files :
          /\ Len(p) \in {2, 3}
          /\ p[1] = <<"t", "m", "p">>
          /\ SafeMdName(p[Len(p)])
          /\ Len(p) = 3 => p[2] # <<>> /\ SafeComponent(p[2])
    /\ \A d \in fs.dirs :
          /\ Len(d) \in {1, 2}
          /\ d[1] = <<"t", "m", "p">>
          /\ Len(d) = 2 => d[2] # <<>> /\ SafeComponent(d[2])

\* "../x" of the collection "../e" and the document titled "/" have been
\* written
PathTitlesWritten ==
    /\ << <<"t", "m", "p">>, <<"e">>, <<"x", ".", "m", "d">> >> \in DOMAIN fs.files
    /\ << <<"t", "m", "p">>, <<".", "m", "d">> >> \in DOMAIN fs.files

----------------------------------------------------------------------------
(* The frame of the two pipelines on the staging directory *)

\* the paths whose file is new or has other content after the step
ChangedFiles ==
    {p \in DOMAIN fs'.files : p \notin DOMAIN fs.files \/ fs'.files[p] # fs.files[p]}

\* nothing is deleted, and a step of the sync pipeline leaves the staging
\* directory as it is
NothingDeleted ==
    /\ fs.dirs \subseteq fs'.dirs
    /\ DOMAIN fs.files \subseteq DOMAIN fs'.files
    /\ (spc # "idle" \/ spc' # "idle") => fs' = fs

----------------------------------------------------------------------------
(* The staging directory cannot be listed *)

\* C28: when the clear phase has succeeded and the staging directory cannot
\* be listed, the run reports the failure and issues no upload and no add
\* call; the remove calls of the clear phase have taken effect and are not
\* undone, so the collection is left without the files that were removed.
ReadDirFailureAfterClear ==
    /\ [][(spc = "readdir" /\ DocumentsDir \notin fs.dirs) =>
            /\ syncResult' = ReadDirError
            /\ spc' = "idle"
            /\ sink' = sink
            /\ scalls' = scalls]_vars
    /\ [][(syncResult' = ReadDirError /\ syncResult # ReadDirError) =>
            /\ spc = "readdir"
            /\ spc' = "idle"
            /\ sink' = sink
            /\ scalls' = scalls]_vars
    /\ [](syncResult = ReadDirError =>
            /\ spc = "idle"
            /\ Kinds({"upload", "add"}) = {}
            /\ Kinds({"list"}) = {1}
            /\ Len(RemoveCalls) = Len(knowFiles)
            /\ sink.members = Range(knowFiles) \ Removed
            /\ sink.members \cap Removed = {})

\* the run has failed at the directory listing after both members of the
\* collection were removed; the collection is empty
ReadDirFailedAfterTwoRemoved ==
    /\ syncResult = ReadDirError
    /\ Len(knowFiles) = 2
    /\ Removed = {1, 2}
    /\ sink.members = {}
    /\ DocumentsDir \notin fs.dirs

=============================================================================
